---- MODULE Spec2Model ----
(***************************************************************************)
(* Model of the tiled render pipeline of parallel-image-processing-gui     *)
(* (src/src/main.rs, src/src/app_config.rs): the threads spawned by        *)
(* start_rendering, the six bounded crossbeam channels that connect them,  *)
(* the frame buffer behind its mutex, and the event loop of main.          *)
(*                                                                         *)
(* Every channel operation is one atomic step.  A thread that panics ends  *)
(* and drops its channel handles, as unwinding does.  Pixel colours are    *)
(* not tracked: the frame buffer records, per byte, how many Merge         *)
(* operations wrote it.                                                    *)
(***************************************************************************)
EXTENDS Integers, Sequences, FiniteSets, TLC

\* ------------------------------------------------------------------ bounds
MaxWidth == 3
MaxHeight == 3
MaxTileSize == 3
MaxThreads == 2
MaxLoadMillis == 2
MaxShuffles == 2
MaxTiles == 2
MaxWork == 2
MaxBeyond == 3
MaxGeomTiles == 2

\* --------------------------------------------------------- program constants
COLOR_CHANNELS == 4
WorkQueueFactor == 8
CopyQueueFactor == 2
ControlCapacity == 1
F32_SIGNIFICAND == 24

\* ------------------------------------------------------------ configuration
\* AppConfig: width, height, tile_size, num_threads and max_load_millis are
\* all NonZero integers.
AppConfig ==
    [width : 1..MaxWidth, height : 1..MaxHeight, tile_size : 1..MaxTileSize,
     num_threads : 1..MaxThreads, max_load_millis : 1..MaxLoadMillis]

\* threads(): num_threads, which start_rendering has found to be no more than
\* the logical CPUs, or the program would have ended before any thread ran.
threads(c) == c.num_threads

\* ------------------------------------------------------------ f32 arithmetic
\* An f32 is the record [m, e] that stands for m * 2^e, with m below
\* 2^F32_SIGNIFICAND.  Every operation rounds its exact result to the nearest
\* such value, ties to the even significand.
Pow2(n) == 2 ^ n

\* The position of the leading bit of k >= 1.
Log2(k) == CHOOSE j \in 0..29 : Pow2(j) <= k /\ k < Pow2(j + 1)

\* n / d rounded to an integer, ties to even.
RoundHalfEven(n, d) ==
    LET q == n \div d
        r == n % d
    IN IF 2 * r > d \/ (2 * r = d /\ q % 2 = 1) THEN q + 1 ELSE q

\* The f32 nearest to n / d, for n = 0 or n >= d >= 1.
F32Round(n, d) ==
    IF n = 0 THEN [m |-> 0, e |-> 0]
    ELSE LET e == Log2(n \div d) - (F32_SIGNIFICAND - 1)
         IN IF e >= 0
            THEN [m |-> RoundHalfEven(n, d * Pow2(e)), e |-> e]
            ELSE [m |-> RoundHalfEven(n * Pow2(-e), d), e |-> e]

\* `n as f32` for an unsigned integer n.
as_f32(n) == F32Round(n, 1)

\* `f as u32`: the fraction is cut off.  Exact for an f32 that holds an
\* integer.
as_u32(f) == IF f.e >= 0 THEN f.m * Pow2(f.e) ELSE f.m \div Pow2(-f.e)

\* a + b and a / b on f32 values that hold integers.
f32_add(a, b) == F32Round(as_u32(a) + as_u32(b), 1)

f32_div(a, b) == F32Round(as_u32(a), as_u32(b))

\* The expression of tiles_x() and tiles_y(), for the width or the height:
\* ((extent as f32 + (tile_size - 1) as f32) / tile_size as f32) as u32
tiles_along(extent, tile_size) ==
    as_u32(f32_div(f32_add(as_f32(extent), as_f32(tile_size - 1)),
                   as_f32(tile_size)))

\* The widths and heights of the images considered: the small ones, and the
\* ones about as large as the largest integer below which every integer is an
\* f32.
WideExtents == {Pow2(F32_SIGNIFICAND) + k : k \in (-1)..MaxBeyond}

Extents ==
    (1..(IF MaxWidth > MaxHeight THEN MaxWidth ELSE MaxHeight)) \cup WideExtents

\* The values of that expression on them, computed once.
TilesAlong ==
    [extent \in Extents, tile_size \in 1..MaxTileSize |->
        tiles_along(extent, tile_size)]

tiles_x(c) == TilesAlong[c.width, c.tile_size]

tiles_y(c) == TilesAlong[c.height, c.tile_size]

tiles(c) == tiles_x(c) * tiles_y(c)

tiles_pixel_bytes(c) == c.tile_size * c.tile_size * COLOR_CHANNELS

\* get_tile_bounds of main.rs: <<min_x, min_y, max_x, max_y>>.
get_tile_bounds(c, tile_idx) ==
    LET tile_x == tile_idx % tiles_x(c)
        tile_y == tile_idx \div tiles_x(c)
        min_y == tile_y * c.tile_size
        max_y0 == min_y + c.tile_size
        max_y == IF max_y0 > c.height - 1 THEN c.height - 1 ELSE max_y0
        min_x == tile_x * c.tile_size
        max_x0 == min_x + c.tile_size
        max_x == IF max_x0 > c.width - 1 THEN c.width - 1 ELSE max_x0
    IN <<min_x, min_y, max_x, max_y>>

\* get_tile_bounds of app.rs: <<x_min, y_min, x_max, y_max>>.
app_get_tile_bounds(c, tile_idx) ==
    LET tile_x == tile_idx % tiles_x(c)
        tile_y == tile_idx \div tiles_x(c)
        y_min == tile_y * c.tile_size
        y_max0 == y_min + c.tile_size - 1
        y_max == IF y_max0 > c.height - 1 THEN c.height - 1 ELSE y_max0
        x_min == tile_x * c.tile_size
        x_max0 == x_min + c.tile_size - 1
        x_max == IF x_max0 > c.width - 1 THEN c.width - 1 ELSE x_max0
    IN <<x_min, y_min, x_max, y_max>>

FrameBytes(c) == c.width * c.height * COLOR_CHANNELS

\* The slices one iteration of copy_tile's row loop takes, for row y.
RowSlices(c, tile_idx, y) ==
    LET b == get_tile_bounds(c, tile_idx)
        dst_start == (y * c.width + b[1]) * COLOR_CHANNELS
        src_start == (y - b[2]) * c.tile_size * COLOR_CHANNELS
    IN [dst_start |-> dst_start,
        dst_end |-> dst_start + c.tile_size * COLOR_CHANNELS,
        src_start |-> src_start,
        src_end |-> src_start + c.tile_size * COLOR_CHANNELS]

\* Slice indexing panics when a range ends past the slice.
RowInRange(c, tile_idx, y) ==
    LET s == RowSlices(c, tile_idx, y)
    IN /\ s.dst_end <= FrameBytes(c)
       /\ s.src_end <= tiles_pixel_bytes(c)

\* The rows copy_tile visits: for y in y_min..y_max (exclusive end).
CopyRows(c, tile_idx) ==
    LET b == get_tile_bounds(c, tile_idx) IN b[2] .. (b[4] - 1)

\* The rows copied before the loop ends or a slice is out of range.
RowsDone(c, tile_idx) ==
    {y \in CopyRows(c, tile_idx) :
        \A z \in CopyRows(c, tile_idx) : z <= y => RowInRange(c, tile_idx, z)}

CopyPanics(c, tile_idx) ==
    \E y \in CopyRows(c, tile_idx) : ~RowInRange(c, tile_idx, y)

\* dst.copy_from_slice(src) for every completed row: the bytes written.
BytesWritten(c, tile_idx) ==
    UNION {RowSlices(c, tile_idx, y).dst_start ..
              (RowSlices(c, tile_idx, y).dst_end - 1) : y \in RowsDone(c, tile_idx)}

\* The frame after the copy loop of one Merge (write counts per byte).
CopyInto(fr, c, tile_idx) ==
    LET written == BytesWritten(c, tile_idx)
    IN [i \in DOMAIN fr |-> IF i \in written THEN fr[i] + 1 ELSE fr[i]]

\* app.rs copy_tile: x_max - x_min is below zero when get_tile_bounds returns
\* x_min beyond x_max; a build with overflow checks panics there.
app_tile_width_overflows(c, tile_idx) ==
    LET b == app_get_tile_bounds(c, tile_idx) IN b[3] < b[1]

\* A width no frame considered has room for: what the u32 subtraction wraps
\* to when x_max - x_min is below -1.
WrappedWidth == Pow2(F32_SIGNIFICAND + 4)

\* app.rs copy_tile: tw = (x_max - x_min + 1) as usize, in u32 arithmetic;
\* without overflow checks -1 + 1 wraps to 0.
app_tile_width(c, tile_idx) ==
    LET b == app_get_tile_bounds(c, tile_idx)
    IN IF b[3] - b[1] >= -1 THEN b[3] - b[1] + 1 ELSE WrappedWidth

\* app.rs copy_tile: the slices one iteration of the row loop takes, for row y.
AppRowSlices(c, tile_idx, y) ==
    LET b == app_get_tile_bounds(c, tile_idx)
        tw == app_tile_width(c, tile_idx)
        dst_start == (y * c.width + b[1]) * COLOR_CHANNELS
        src_start == (y - b[2]) * c.tile_size * COLOR_CHANNELS
    IN [dst_start |-> dst_start,
        dst_end |-> dst_start + tw * COLOR_CHANNELS,
        src_start |-> src_start,
        src_end |-> src_start + tw * COLOR_CHANNELS]

AppRowInRange(c, tile_idx, y) ==
    LET s == AppRowSlices(c, tile_idx, y)
    IN /\ s.dst_end <= FrameBytes(c)
       /\ s.src_end <= tiles_pixel_bytes(c)

\* app.rs copy_tile: for y in y_min..=y_max.
AppCopyRows(c, tile_idx) ==
    LET b == app_get_tile_bounds(c, tile_idx) IN b[2] .. b[4]

\* app.rs copy_tile panics on the subtraction (overflow_checks) or on a slice
\* out of range.
AppCopyPanics(c, tile_idx, overflow_checks) ==
    \/ overflow_checks /\ app_tile_width_overflows(c, tile_idx)
    \/ \E y \in AppCopyRows(c, tile_idx) : ~AppRowInRange(c, tile_idx, y)

\* The rows copied before the loop ends or copy_tile panics.
AppRowsDone(c, tile_idx, overflow_checks) ==
    IF overflow_checks /\ app_tile_width_overflows(c, tile_idx)
    THEN {}
    ELSE {y \in AppCopyRows(c, tile_idx) :
             \A z \in AppCopyRows(c, tile_idx) :
                 z <= y => AppRowInRange(c, tile_idx, z)}

\* rng.gen_range(1..max_load_millis): the half-open range, empty when
\* max_load_millis = 1, and sampling an empty range panics.
LoadRange(c) == 1 .. (c.max_load_millis - 1)

\* -------------------------------------------------------------------- state
VARIABLES
    calc,             \* the last result computed from CONFIG alone
    config,           \* CONFIG
    frame,            \* pixels.frame_mut(): write count per byte
    lock,             \* the Mutex around pixels: "free", "merger" (held),
                      \* "poisoned", "main" (poisoned and held by main)
    stop_render,      \* bounded(1): main -> wait_for_exit
    stop_complete,    \* bounded(1): wait_for_exit -> main
    process_tile,     \* bounded(threads * 8): queue_tiles -> render_tile
    copy_tile_ch,     \* bounded(threads * 2): render_tile -> copy_tile
    stop_redraw,      \* bounded(1): wait_for_exit -> redraw_window
    stop_queue,       \* bounded(1): wait_for_exit -> queue_tiles
    main,             \* the event loop and stop_rendering
    coord,            \* wait_for_exit
    sched,            \* queue_tiles
    ticker,           \* redraw_window
    worker,           \* render_tile, one per thread
    merger,           \* copy_tile
    hist              \* history of the run, read by the properties only

vars == <<calc, config, frame, lock, stop_render, stop_complete, process_tile,
          copy_tile_ch, stop_redraw, stop_queue, main, coord, sched, ticker,
          worker, merger, hist>>

Workers == 1..threads(config)

Tiles == 0..(tiles(config) - 1)

\* ----------------------------------------------------------------- messages
Stop == [kind |-> "Stop"]

\* As if queue_tiles sent the index that follows the tile's.
ProcessNext(t) == [kind |-> "Process", tile |-> (t + 1) % tiles(config)]

Process(t) == [kind |-> "Process", tile |-> t]

Merge(t) == [kind |-> "Merge", tile |-> t]

\* tiles.shuffle(&mut rng): the orders considered, rotations of 0..n-1.
Rotate(n, k) == [i \in 1..n |-> (i - 1 + k) % n]

Shuffles(n) ==
    {Rotate(n, k) : k \in 0..((IF n < MaxShuffles THEN n ELSE MaxShuffles) - 1)}

\* ----------------------------------------------------------- channel handles
WorkerLive(w) == worker[w].pc \notin {"done", "panicked"}

MergerLive == merger.pc \notin {"done", "panicked"}

\* As if start_rendering kept a clone of process_tile_tx alive.
ProcessTileSendersKept == TRUE

\* process_tile_txc is owned by queue_tiles; process_tile_tx is moved into
\* wait_for_exit and from there into its message_thread call.
ProcessTileSenders ==
    \/ sched.pc # "done"
    \/ coord.pc \in {"recv", "stop_queue", "stop_redraw", "stop_process"}

ProcessTileReceivers == \E w \in Workers : WorkerLive(w)

\* Every worker owns a clone of copy_tile_tx; wait_for_exit owns the original
\* until it returns.
CopyTileSenders == (\E w \in Workers : WorkerLive(w)) \/ coord.pc # "done"

CopyTileReceivers == MergerLive

StopQueueSenders == coord.pc \in {"recv", "stop_queue"}

StopQueueReceivers == sched.pc # "done"

StopRedrawSenders == coord.pc \in {"recv", "stop_queue", "stop_redraw"}

StopRedrawReceivers == ticker.pc # "done"

\* The event loop of main keeps stop_render_tx and stop_complete_rx, and main
\* keeps stop_complete_tx, for good.
StopRenderSenders == TRUE

StopRenderReceivers == coord.pc # "done"

\* As if main had moved its stop_complete_tx into start_rendering.
StopCompleteSendersMoved == coord.pc # "done"

StopCompleteSenders == TRUE

StopCompleteReceivers == TRUE

ProcessTileCapacity == threads(config) * WorkQueueFactor

CopyTileCapacity == threads(config) * CopyQueueFactor

\* ------------------------------------------------------------ message_thread
\* As if a full channel were reported as disconnected.
try_send_full_disconnected(ch, capacity, receivers) ==
    IF ~receivers \/ Len(ch) >= capacity THEN "Disconnected" ELSE "Ok"

\* One tx.try_send(message.clone()): what it returns for this channel state.
try_send(ch, capacity, receivers) ==
    IF ~receivers THEN "Disconnected"
    ELSE IF Len(ch) >= capacity THEN "Full"
    ELSE "Ok"

\* As if Disconnected continued the loop.
message_thread_returns_on_ok(ch, capacity, receivers) ==
    try_send(ch, capacity, receivers) = "Ok"

\* message_thread: Ok and Disconnected break the loop, Full continues it.
message_thread_returns(ch, capacity, receivers) ==
    try_send(ch, capacity, receivers) \in {"Ok", "Disconnected"}

\* As if Ok continued the loop and the message were sent again.
message_thread_channel_again(ch, capacity, receivers, message) ==
    IF try_send(ch, capacity, receivers) = "Ok"
    THEN Append(Append(ch, message), message) ELSE ch

\* The channel after one attempt of message_thread.
message_thread_channel(ch, capacity, receivers, message) ==
    IF try_send(ch, capacity, receivers) = "Ok" THEN Append(ch, message) ELSE ch

\* rx.try_recv() on an empty channel.
try_recv_empty(senders) == IF senders THEN "Empty" ELSE "Disconnected"

\* -------------------------------------------------------------------- Init
NoTile == -1

\* The channels wait_for_exit sends Stop on.
CoordChannels ==
    {"stop_queue", "stop_redraw", "process_tile", "copy_tile", "stop_complete"}

\* The state after start_rendering has spawned the threads and queue_tiles
\* has shuffled its tiles, for the configuration `c`.
Start(c) ==
    /\ calc = [op |-> "none"]
    /\ config = c
    /\ frame = [i \in 0..(FrameBytes(config) - 1) |-> 0]
    /\ lock = "free"
    /\ stop_render = <<>>
    /\ stop_complete = <<>>
    /\ process_tile = <<>>
    /\ copy_tile_ch = <<>>
    /\ stop_redraw = <<>>
    /\ stop_queue = <<>>
    /\ main = [pc |-> "run"]
    /\ coord = [pc |-> "recv", i |-> 0]
    /\ \E order \in Shuffles(tiles(c)) :
          sched = [pc |-> "check", rest |-> order, tile |-> NoTile]
    /\ ticker = [pc |-> "poll"]
    /\ worker = [w \in 1..threads(config) |->
                    [pc |-> "recv", tile |-> NoTile, d |-> 0]]
    /\ merger = [pc |-> "recv", tile |-> NoTile]
    /\ hist = [enqueued |-> [t \in 0..(tiles(config) - 1) |-> 0],
               rendered |-> [t \in 0..(tiles(config) - 1) |-> 0],
               consumed |-> [t \in 0..(tiles(config) - 1) |-> 0],
               merged |-> [t \in 0..(tiles(config) - 1) |-> 0],
               done_sent |-> 0,
               done_received |-> 0,
               stop_sent |-> 0,
               calls |-> [ch \in CoordChannels |-> 0],
               late |-> 0,
               drain_merges |-> {},
               drain_queued |-> {}]

\* Runs that the user may stop at any moment, on the smaller images.
Init == \E c \in {a \in AppConfig : tiles(a) <= MaxTiles} : Start(c)

\* The same runs where tiles times worker threads is small.
InitFair ==
    \E c \in {a \in AppConfig : tiles(a) * threads(a) <= MaxWork} : Start(c)

\* The same runs of one worker on the images with more tiles than the work
\* channel holds.
InitBusy ==
    \E c \in {a \in AppConfig : /\ threads(a) = 1
                                /\ tiles(a) > threads(a) * WorkQueueFactor} :
        Start(c)

\* Runs that no window event stops, on every image within the bounds.
InitRun == \E c \in AppConfig : Start(c)

\* The tiles of the Process (Merge) messages on a channel.
TilesOn(ch) == {ch[i].tile : i \in {j \in 1..Len(ch) : ch[j] # Stop}}

\* ------------------------------------------------------------------- main
\* stop_rendering, up to its blocking receive:
\* message_thread(stop_render_tx.clone(), ThreadMessage::Stop).  While the
\* call goes on trying, the event loop stays where it was.
stop_rendering ==
    /\ stop_render' = message_thread_channel(stop_render, ControlCapacity,
                                             StopRenderReceivers, Stop)
    /\ main' = [main EXCEPT !.pc =
                   IF message_thread_returns(stop_render, ControlCapacity,
                                             StopRenderReceivers)
                   THEN "stop_wait" ELSE main.pc]
    /\ hist' = [hist EXCEPT !.stop_sent =
                   @ + (Len(stop_render') - Len(stop_render))]

\* WindowEvent::CloseRequested | Destroyed | Escape released.  The window
\* can deliver one of them again after the handler has set ControlFlow::Exit
\* (CloseRequested, then Destroyed): the handler then runs a second time.
MainCloseRequested ==
    /\ main.pc \in {"run", "exit"}
    /\ stop_rendering
    /\ UNCHANGED <<calc, config, frame, lock, stop_complete, process_tile,
                   copy_tile_ch, stop_redraw, stop_queue, coord, sched, ticker,
                   worker, merger>>

\* What Pixels::render returns: Ok(()) or Err(pixels::Error).
RenderResults == {"Ok", "Err"}

\* Event::RedrawRequested: pixels.lock().map(|p| p.render()); only the Err of
\* lock(), a poisoned mutex, matches `if let Err(err)` and stops rendering.
\* On a mutex that is not poisoned lock() waits for the Merger's guard, and
\* the guard it returns is dropped when render returns, with either result.
\* The PoisonError bound to `err` owns the guard of the poisoned mutex until
\* the block ends, so stop_rendering runs with the mutex held.
MainRedrawRequested ==
    /\ main.pc = "run"
    /\ lock # "merger"
    /\ IF lock = "free"
       THEN /\ \E result \in RenderResults :
                  main' = [main EXCEPT !.pc = IF result = "Err"
                                             THEN "render_err" ELSE "run"]
            /\ UNCHANGED <<lock, stop_render, hist>>
       ELSE /\ lock' = "main"
            /\ stop_rendering
    /\ UNCHANGED <<calc, config, frame, stop_complete, process_tile,
                   copy_tile_ch, stop_redraw, stop_queue, coord, sched, ticker,
                   worker, merger>>

\* The value of lock().map(..) after a render that failed is Ok(Err(..)),
\* which `if let Err(err)` does not match: the handler returns and the event
\* loop goes on.
MainRenderReturned ==
    /\ main.pc = "render_err"
    /\ main' = [main EXCEPT !.pc = "run"]
    /\ UNCHANGED <<calc, config, frame, lock, stop_render, stop_complete,
                   process_tile, copy_tile_ch, stop_redraw, stop_queue, coord,
                   sched, ticker, worker, merger, hist>>

\* stop_rendering: stop_complete_rx.recv().unwrap(), then ControlFlow::Exit.
\* recv() blocks on the empty channel while the channel has a sender, and
\* returns Err, on which unwrap panics, when it has none.
MainStopWait ==
    /\ main.pc = "stop_wait"
    /\ IF stop_complete # <<>>
       THEN /\ stop_complete' = Tail(stop_complete)
            /\ main' = [main EXCEPT !.pc = "exit"]
            /\ hist' = [hist EXCEPT !.done_received = @ + 1]
       ELSE /\ ~StopCompleteSenders
            /\ stop_complete' = stop_complete
            /\ main' = [main EXCEPT !.pc = "panicked"]
            /\ hist' = hist
    /\ lock' = IF lock = "main" THEN "poisoned" ELSE lock
    /\ UNCHANGED <<calc, config, frame, stop_render, process_tile,
                   copy_tile_ch, stop_redraw, stop_queue, coord, sched, ticker,
                   worker, merger>>

\* ----------------------------------------------------------- wait_for_exit
\* for _ in stop_render_rx.iter(): the blocking receive of the external Stop.
\* The iterator ends, and wait_for_exit returns, on an empty channel with no
\* sender.
CoordRecv ==
    /\ coord.pc = "recv"
    /\ IF stop_render # <<>>
       THEN /\ stop_render' = Tail(stop_render)
            /\ coord' = [coord EXCEPT !.pc = "stop_queue"]
            /\ hist' = [hist EXCEPT !.drain_merges = TilesOn(copy_tile_ch),
                                    !.drain_queued = TilesOn(process_tile)]
       ELSE /\ ~StopRenderSenders
            /\ stop_render' = stop_render
            /\ coord' = [coord EXCEPT !.pc = "done"]
            /\ hist' = hist
    /\ UNCHANGED <<calc, config, frame, lock, stop_complete, process_tile,
                   copy_tile_ch, stop_redraw, stop_queue, main, sched, ticker,
                   worker, merger>>

\* The Coordinator's record after one attempt of a message_thread call that
\* leads to position `next` when it returns.
CoordAfter(ch, capacity, receivers, next, count) ==
    IF message_thread_returns(ch, capacity, receivers)
    THEN [coord EXCEPT !.pc = next, !.i = count]
    ELSE coord

\* The history after one attempt of a message_thread call of wait_for_exit:
\* the calls on `name` that have returned.
CoordCalled(h, name, ch, capacity, receivers) ==
    [h EXCEPT !.calls[name] =
        @ + IF message_thread_returns(ch, capacity, receivers) THEN 1 ELSE 0]

\* message_thread(stop_queue_tx, ThreadMessage::Stop)
CoordStopQueue ==
    /\ coord.pc = "stop_queue"
    /\ stop_queue' = message_thread_channel(stop_queue, ControlCapacity,
                                            StopQueueReceivers, Stop)
    /\ coord' = CoordAfter(stop_queue, ControlCapacity, StopQueueReceivers,
                           "stop_redraw", 0)
    /\ hist' = CoordCalled(hist, "stop_queue", stop_queue, ControlCapacity,
                           StopQueueReceivers)
    /\ UNCHANGED <<calc, config, frame, lock, stop_render, stop_complete,
                   process_tile, copy_tile_ch, stop_redraw, main, sched, ticker,
                   worker, merger>>

\* message_thread(stop_redraw_tx, ThreadMessage::Stop)
CoordStopRedraw ==
    /\ coord.pc = "stop_redraw"
    /\ stop_redraw' = message_thread_channel(stop_redraw, ControlCapacity,
                                             StopRedrawReceivers, Stop)
    /\ coord' = CoordAfter(stop_redraw, ControlCapacity, StopRedrawReceivers,
                           "stop_process", 0)
    /\ hist' = CoordCalled(hist, "stop_redraw", stop_redraw, ControlCapacity,
                           StopRedrawReceivers)
    /\ UNCHANGED <<calc, config, frame, lock, stop_render, stop_complete,
                   process_tile, copy_tile_ch, stop_queue, main, sched, ticker,
                   worker, merger>>

\* As if the done-signal followed the Stop on the work channel at once.
CoordStopProcessThenDone ==
    /\ coord.pc = "stop_process"
    /\ process_tile' = message_thread_channel(process_tile, ProcessTileCapacity,
                                              ProcessTileReceivers, Stop)
    /\ coord' = CoordAfter(process_tile, ProcessTileCapacity,
                           ProcessTileReceivers, "stop_complete", 0)
    /\ hist' = CoordCalled(hist, "process_tile", process_tile,
                           ProcessTileCapacity, ProcessTileReceivers)
    /\ UNCHANGED <<calc, config, frame, lock, stop_render, stop_complete,
                   copy_tile_ch, stop_redraw, stop_queue, main, sched, ticker,
                   worker, merger>>

\* message_thread(process_tile_tx, TileMessage::Stop)
CoordStopProcess ==
    /\ coord.pc = "stop_process"
    /\ process_tile' = message_thread_channel(process_tile, ProcessTileCapacity,
                                              ProcessTileReceivers, Stop)
    /\ coord' = CoordAfter(process_tile, ProcessTileCapacity,
                           ProcessTileReceivers, "stop_copy", 0)
    /\ hist' = CoordCalled(hist, "process_tile", process_tile,
                           ProcessTileCapacity, ProcessTileReceivers)
    /\ UNCHANGED <<calc, config, frame, lock, stop_render, stop_complete,
                   copy_tile_ch, stop_redraw, stop_queue, main, sched, ticker,
                   worker, merger>>

\* As if the loop were for _thread in 0..=CONFIG.threads().
CoordStopCopyInclusive ==
    /\ coord.pc = "stop_copy"
    /\ copy_tile_ch' = message_thread_channel(copy_tile_ch, CopyTileCapacity,
                                              CopyTileReceivers, Stop)
    /\ coord' = CoordAfter(copy_tile_ch, CopyTileCapacity, CopyTileReceivers,
                           IF coord.i + 1 = threads(config) + 1
                           THEN "stop_complete" ELSE "stop_copy",
                           coord.i + 1)
    /\ hist' = CoordCalled(hist, "copy_tile", copy_tile_ch, CopyTileCapacity,
                           CopyTileReceivers)
    /\ UNCHANGED <<calc, config, frame, lock, stop_render, stop_complete,
                   process_tile, stop_redraw, stop_queue, main, sched, ticker,
                   worker, merger>>

\* for _thread in 0..CONFIG.threads():
\*     message_thread(copy_tile_tx.clone(), CopyTileMessage::Stop)
CoordStopCopy ==
    /\ coord.pc = "stop_copy"
    /\ copy_tile_ch' = message_thread_channel(copy_tile_ch, CopyTileCapacity,
                                              CopyTileReceivers, Stop)
    /\ coord' = CoordAfter(copy_tile_ch, CopyTileCapacity, CopyTileReceivers,
                           IF coord.i + 1 = threads(config)
                           THEN "stop_complete" ELSE "stop_copy",
                           coord.i + 1)
    /\ hist' = CoordCalled(hist, "copy_tile", copy_tile_ch, CopyTileCapacity,
                           CopyTileReceivers)
    /\ UNCHANGED <<calc, config, frame, lock, stop_render, stop_complete,
                   process_tile, stop_redraw, stop_queue, main, sched, ticker,
                   worker, merger>>

\* message_thread(stop_complete_tx, ThreadMessage::Stop); break; return.
CoordStopComplete ==
    /\ coord.pc = "stop_complete"
    /\ stop_complete' = message_thread_channel(stop_complete, ControlCapacity,
                                               StopCompleteReceivers, Stop)
    /\ coord' = CoordAfter(stop_complete, ControlCapacity,
                           StopCompleteReceivers, "done", coord.i)
    /\ hist' = [CoordCalled(hist, "stop_complete", stop_complete,
                            ControlCapacity, StopCompleteReceivers)
                   EXCEPT !.done_sent =
                       @ + (Len(stop_complete') - Len(stop_complete))]
    /\ UNCHANGED <<calc, config, frame, lock, stop_render, process_tile,
                   copy_tile_ch, stop_redraw, stop_queue, main, sched, ticker,
                   worker, merger>>

\* -------------------------------------------------------------- queue_tiles
\* As if Ok(_) of try_recv() went on to message_thread like Err(Empty).
SchedCheckNoBreak ==
    /\ sched.pc = "check"
    /\ stop_queue' = IF stop_queue # <<>> THEN Tail(stop_queue) ELSE stop_queue
    /\ sched' = IF stop_queue = <<>>
                   /\ try_recv_empty(StopQueueSenders) = "Disconnected"
                THEN [sched EXCEPT !.pc = "done"]
                ELSE [sched EXCEPT !.pc = "send",
                                   !.tile = Head(sched.rest),
                                   !.rest = Tail(sched.rest)]
    /\ UNCHANGED <<calc, config, frame, lock, stop_render, stop_complete,
                   process_tile, copy_tile_ch, stop_redraw, main, coord, ticker,
                   worker, merger, hist>>

\* for tile_idx in tiles: match stop_queue_rx.try_recv().  Ok(_) and
\* Err(Disconnected) break; Err(Empty) goes on to message_thread.
SchedCheck ==
    /\ sched.pc = "check"
    /\ IF stop_queue # <<>>
       THEN /\ stop_queue' = Tail(stop_queue)
            /\ sched' = [sched EXCEPT !.pc = "done"]
       ELSE /\ stop_queue' = stop_queue
            /\ sched' = IF try_recv_empty(StopQueueSenders) = "Disconnected"
                        THEN [sched EXCEPT !.pc = "done"]
                        ELSE [sched EXCEPT !.pc = "send",
                                           !.tile = Head(sched.rest),
                                           !.rest = Tail(sched.rest)]
    /\ UNCHANGED <<calc, config, frame, lock, stop_render, stop_complete,
                   process_tile, copy_tile_ch, stop_redraw, main, coord, ticker,
                   worker, merger, hist>>

\* message_thread(process_tile_tx.clone(), TileMessage::Process(Tile(tile_idx)));
\* after the last tile the loop ends and queue_tiles returns.
SchedSend ==
    /\ sched.pc = "send"
    /\ process_tile' = message_thread_channel(process_tile, ProcessTileCapacity,
                            ProcessTileReceivers, Process(sched.tile))
    /\ sched' = IF message_thread_returns(process_tile, ProcessTileCapacity,
                                          ProcessTileReceivers)
                THEN [sched EXCEPT
                         !.pc = IF sched.rest = <<>> THEN "done" ELSE "check"]
                ELSE sched
    /\ hist' = [hist EXCEPT
                   !.enqueued[sched.tile] =
                       @ + (Len(process_tile') - Len(process_tile)),
                   !.late = @ + IF stop_queue # <<>>
                                THEN Len(process_tile') - Len(process_tile)
                                ELSE 0]
    /\ UNCHANGED <<calc, config, frame, lock, stop_render, stop_complete,
                   copy_tile_ch, stop_redraw, stop_queue, main, coord, ticker,
                   worker, merger>>

\* ------------------------------------------------------------ redraw_window
\* As if the loop also ended once queue_tiles has returned.
TickerPollWhileQueuing ==
    /\ ticker.pc = "poll"
    /\ IF stop_redraw # <<>>
       THEN /\ stop_redraw' = Tail(stop_redraw)
            /\ ticker' = [ticker EXCEPT !.pc = "done"]
       ELSE /\ stop_redraw' = stop_redraw
            /\ ticker' = IF \/ try_recv_empty(StopRedrawSenders) = "Disconnected"
                            \/ sched.pc = "done"
                         THEN [ticker EXCEPT !.pc = "done"]
                         ELSE [ticker EXCEPT !.pc = "sleep"]
    /\ UNCHANGED <<calc, config, frame, lock, stop_render, stop_complete,
                   process_tile, copy_tile_ch, stop_queue, main, coord, sched,
                   worker, merger, hist>>

\* loop: match stop_redraw_rx.try_recv().  Ok(_) and Err(Disconnected) break;
\* Err(Empty) calls window.request_redraw() and goes to sleep.
TickerPoll ==
    /\ ticker.pc = "poll"
    /\ IF stop_redraw # <<>>
       THEN /\ stop_redraw' = Tail(stop_redraw)
            /\ ticker' = [ticker EXCEPT !.pc = "done"]
       ELSE /\ stop_redraw' = stop_redraw
            /\ ticker' = IF try_recv_empty(StopRedrawSenders) = "Disconnected"
                         THEN [ticker EXCEPT !.pc = "done"]
                         ELSE [ticker EXCEPT !.pc = "sleep"]
    /\ UNCHANGED <<calc, config, frame, lock, stop_render, stop_complete,
                   process_tile, copy_tile_ch, stop_queue, main, coord, sched,
                   worker, merger, hist>>

\* thread::sleep(Duration::from_millis(CONFIG.redraw_millis.get())) returns
\* and the loop goes round.
TickerWake ==
    /\ ticker.pc = "sleep"
    /\ ticker' = [ticker EXCEPT !.pc = "poll"]
    /\ UNCHANGED <<calc, config, frame, lock, stop_render, stop_complete,
                   process_tile, copy_tile_ch, stop_redraw, stop_queue, main,
                   coord, sched, worker, merger, hist>>

\* -------------------------------------------------------------- render_tile
\* for message in process_tile_rx.iter(): Process(tile_idx) fills tile_pixels,
\* samples the load d and sleeps d; Stop breaks; the iterator ends when the
\* channel is empty and every sender is dropped.  A sample that succeeds is
\* seen by no other thread and is taken with the receive; on the empty range
\* the worker goes on to the sample that panics.
WorkerRecv(w) ==
    /\ worker[w].pc = "recv"
    /\ \/ /\ process_tile # <<>>
          /\ Head(process_tile) # Stop
          /\ process_tile' = Tail(process_tile)
          /\ hist' = [hist EXCEPT
                         !.rendered[Head(process_tile).tile] = @ + 1,
                         !.drain_queued = @ \ {Head(process_tile).tile}]
          /\ IF LoadRange(config) = {}
             THEN worker' = [worker EXCEPT ![w].pc = "load",
                                ![w].tile = Head(process_tile).tile]
             ELSE \E d \in LoadRange(config) :
                     worker' = [worker EXCEPT ![w].pc = "send",
                                   ![w].tile = Head(process_tile).tile,
                                   ![w].d = d]
       \/ /\ process_tile # <<>>
          /\ Head(process_tile) = Stop
          /\ process_tile' = Tail(process_tile)
          /\ worker' = [worker EXCEPT ![w].pc = "done"]
          /\ hist' = hist
       \/ /\ process_tile = <<>>
          /\ ~ProcessTileSenders
          /\ process_tile' = process_tile
          /\ worker' = [worker EXCEPT ![w].pc = "done"]
          /\ hist' = hist
    /\ UNCHANGED <<calc, config, frame, lock, stop_render, stop_complete,
                   copy_tile_ch, stop_redraw, stop_queue, main, coord, sched,
                   ticker, merger>>

\* rng.gen_range(1..max_load_millis) on the empty range: the panic unwinds
\* render_tile, which drops its process_tile_rx and copy_tile_tx.
WorkerLoad(w) ==
    /\ worker[w].pc = "load"
    /\ LoadRange(config) = {}
    /\ worker' = [worker EXCEPT ![w].pc = "panicked"]
    /\ UNCHANGED <<calc, config, frame, lock, stop_render, stop_complete,
                   process_tile, copy_tile_ch, stop_redraw, stop_queue, main,
                   coord, sched, ticker, merger, hist>>

\* message_thread(copy_tile_tx.clone(), CopyTileMessage::Merge(..))
WorkerSend(w) ==
    /\ worker[w].pc = "send"
    /\ copy_tile_ch' = message_thread_channel(copy_tile_ch, CopyTileCapacity,
                            CopyTileReceivers, Merge(worker[w].tile))
    /\ worker' = IF message_thread_returns(copy_tile_ch, CopyTileCapacity,
                                           CopyTileReceivers)
                 THEN [worker EXCEPT ![w].pc = "recv", ![w].d = 0]
                 ELSE worker
    /\ UNCHANGED <<calc, config, frame, lock, stop_render, stop_complete,
                   process_tile, stop_redraw, stop_queue, main, coord, sched,
                   ticker, merger, hist>>

\* ---------------------------------------------------------------- copy_tile
\* for message in copy_tile_rx.iter(): Stop breaks; Merge computes the tile
\* bounds and takes the lock, let mut pixels = pixels.lock().unwrap(), which
\* no other thread holds.  The iterator ends on an empty channel with no
\* sender.
MergerRecv ==
    /\ merger.pc = "recv"
    /\ IF copy_tile_ch = <<>>
       THEN /\ ~CopyTileSenders
            /\ copy_tile_ch' = copy_tile_ch
            /\ merger' = [merger EXCEPT !.pc = "done"]
            /\ lock' = lock
            /\ hist' = hist
       ELSE /\ copy_tile_ch' = Tail(copy_tile_ch)
            /\ IF Head(copy_tile_ch) = Stop
               THEN /\ merger' = [merger EXCEPT !.pc = "done"]
                    /\ lock' = lock
                    /\ hist' = hist
               ELSE /\ lock = "free"
                    /\ lock' = "merger"
                    /\ merger' = [merger EXCEPT !.pc = "copy",
                                     !.tile = Head(copy_tile_ch).tile]
                    /\ hist' = [hist EXCEPT
                                   !.consumed[Head(copy_tile_ch).tile] = @ + 1]
    /\ UNCHANGED <<calc, config, frame, stop_render, stop_complete, process_tile,
                   stop_redraw, stop_queue, main, coord, sched, ticker, worker>>

\* The row loop of copy_tile, then the guard is dropped.  A slice out of range
\* panics with the guard held, which poisons the mutex.
MergerCopy ==
    /\ merger.pc = "copy"
    /\ frame' = CopyInto(frame, config, merger.tile)
    /\ IF CopyPanics(config, merger.tile)
       THEN /\ merger' = [merger EXCEPT !.pc = "panicked"]
            /\ lock' = "poisoned"
            /\ hist' = hist
       ELSE /\ merger' = [merger EXCEPT !.pc = "recv"]
            /\ lock' = "free"
            /\ hist' = [hist EXCEPT !.merged[merger.tile] = @ + 1,
                                    !.drain_merges = @ \ {merger.tile}]
    /\ UNCHANGED <<calc, config, stop_render, stop_complete, process_tile,
                   copy_tile_ch, stop_redraw, stop_queue, main, coord, sched,
                   ticker, worker>>

\* ------------------------------------------------- functions of CONFIG alone
\* Configurations of small images and of images about as wide as the largest
\* integer below which every integer is an f32.
GeomConfig ==
    [width : (1..MaxWidth) \cup WideExtents,
     height : 1..MaxHeight, tile_size : 1..MaxTileSize,
     num_threads : {1}, max_load_millis : {MaxLoadMillis}]

\* CONFIG parsed, start_rendering not yet called.
GeomInit ==
    /\ calc = [op |-> "none"]
    /\ config \in GeomConfig
    /\ frame = <<>>
    /\ lock = "free"
    /\ stop_render = <<>>
    /\ stop_complete = <<>>
    /\ process_tile = <<>>
    /\ copy_tile_ch = <<>>
    /\ stop_redraw = <<>>
    /\ stop_queue = <<>>
    /\ main = [pc |-> "init"]
    /\ coord = [pc |-> "init"]
    /\ sched = [pc |-> "init"]
    /\ ticker = [pc |-> "init"]
    /\ worker = <<>>
    /\ merger = [pc |-> "init"]
    /\ hist = <<>>

pipeline == <<config, frame, lock, stop_render, stop_complete, process_tile,
              copy_tile_ch, stop_redraw, stop_queue, main, coord, sched,
              ticker, worker, merger, hist>>

\* The first and the last tile indices of 0..tiles()-1.
GeomTiles(c) ==
    LET n == tiles(c)
    IN (0..((IF n < MaxGeomTiles THEN n ELSE MaxGeomTiles) - 1))
          \cup ((IF n < MaxGeomTiles THEN 0 ELSE n - MaxGeomTiles)..(n - 1))

\* CONFIG.tiles_x(), CONFIG.tiles_y(), CONFIG.tiles()
CallTiles ==
    /\ calc' = [op |-> "tiles", tiles_x |-> tiles_x(config),
                tiles_y |-> tiles_y(config), tiles |-> tiles(config)]
    /\ UNCHANGED pipeline

\* get_tile_bounds(tile_idx) of main.rs, called twice.
CallGetTileBounds(tile_idx) ==
    /\ calc' = [op |-> "get_tile_bounds", tile |-> tile_idx,
                bounds |-> get_tile_bounds(config, tile_idx),
                again |-> get_tile_bounds(config, tile_idx)]
    /\ UNCHANGED pipeline

\* get_tile_bounds(tile_idx) of app.rs, called twice.
CallAppGetTileBounds(tile_idx) ==
    /\ calc' = [op |-> "app_get_tile_bounds", tile |-> tile_idx,
                bounds |-> app_get_tile_bounds(config, tile_idx),
                again |-> app_get_tile_bounds(config, tile_idx)]
    /\ UNCHANGED pipeline

\* The first and the last columns of the image.
GeomColumns(c) ==
    (0..((IF c.width < MaxGeomTiles THEN c.width ELSE MaxGeomTiles) - 1))
       \cup ((IF c.width < MaxGeomTiles THEN 0
                ELSE c.width - MaxGeomTiles)..(c.width - 1))

\* app.rs render: for tile_idx in 0..CONFIG.tiles(). Of a wide image only
\* the tiles of the columns next to the one x falls in are followed, in every
\* tile row: get_tile_bounds places tile column tile_x at x_min =
\* tile_x * tile_size and x_max <= x_min + tile_size - 1, and copy_tile
\* writes the pixels x_min..x_min + tw - 1 of a row, so no other tile reaches x.
AppTilesAt(c, x) ==
    IF c.width <= MaxWidth
    THEN 0..(tiles(c) - 1)
    ELSE {tile_y * tiles_x(c) + tile_x :
             tile_x \in (((x \div c.tile_size) - 1)..((x \div c.tile_size) + 1))
                           \cap (0..(tiles_x(c) - 1)),
             tile_y \in 0..(tiles_y(c) - 1)}

\* Whether the rectangle of a tile holds the pixel.
AppTileHolds(c, tile_idx, x, y) ==
    LET b == app_get_tile_bounds(c, tile_idx)
    IN b[1] <= x /\ x <= b[3] /\ b[2] <= y /\ y <= b[4]

\* How often the copies of the tiles write one byte of the frame.
AppWrites(c, among, byte, overflow_checks) ==
    Cardinality(UNION {{<<t, r>> : r \in {q \in AppRowsDone(c, t, overflow_checks) :
                             /\ AppRowSlices(c, t, q).dst_start <= byte
                             /\ byte < AppRowSlices(c, t, q).dst_end}} :
                       t \in among})

\* app.rs: copy_tile(tile_idx, ..) once for every tile of 0..tiles(), seen
\* at the pixel (x, y) of the frame.
CallAppCopyTiles(x, y, overflow_checks) ==
    /\ calc' = [op |-> "app_copy_tiles", x |-> x, y |-> y,
                tiles |-> Cardinality({t \in AppTilesAt(config, x) :
                                          AppTileHolds(config, t, x, y)}),
                writes |-> [ch \in 0..(COLOR_CHANNELS - 1) |->
                              AppWrites(config, AppTilesAt(config, x),
                                        (y * config.width + x) * COLOR_CHANNELS + ch,
                                        overflow_checks)],
                panics |-> \E t \in AppTilesAt(config, x) \cup GeomTiles(config) :
                              AppCopyPanics(config, t, overflow_checks)]
    /\ UNCHANGED pipeline

GeomNext ==
    \/ CallTiles
    \/ \E t \in GeomTiles(config) : CallGetTileBounds(t)
    \/ \E t \in GeomTiles(config) : CallAppGetTileBounds(t)
    \/ \E x \in GeomColumns(config), y \in 0..(config.height - 1),
          overflow_checks \in BOOLEAN : CallAppCopyTiles(x, y, overflow_checks)

GeomSpec == GeomInit /\ [][GeomNext]_vars

\* ------------------------------------------------------------ specification
MainStep ==
    \/ MainCloseRequested
    \/ MainRedrawRequested
    \/ MainRenderReturned
    \/ MainStopWait

CoordStep ==
    \/ CoordRecv
    \/ CoordStopQueue
    \/ CoordStopRedraw
    \/ CoordStopProcess
    \/ CoordStopCopy
    \/ CoordStopComplete

SchedStep == SchedCheck \/ SchedSend

TickerStep == TickerPoll \/ TickerWake

WorkerStep(w) == WorkerRecv(w) \/ WorkerLoad(w) \/ WorkerSend(w)

MergerStep == MergerRecv \/ MergerCopy

Next ==
    \/ MainStep
    \/ CoordStep
    \/ SchedStep
    \/ TickerStep
    \/ \E w \in Workers : WorkerStep(w)
    \/ MergerStep

Spec == Init /\ [][Next]_vars

\* The steps the program takes by itself.  When the window is closed is up
\* to the user.
ProgramStep ==
    \/ MainRedrawRequested
    \/ MainRenderReturned
    \/ MainStopWait
    \/ CoordStep
    \/ SchedStep
    \/ TickerStep
    \/ \E w \in Workers : WorkerStep(w)
    \/ MergerStep

\* The pipeline threads between them: the Coordinator, the Scheduler, the
\* Workers and the Merger.
PipelineStep ==
    \/ CoordStep
    \/ SchedStep
    \/ \E w \in Workers : WorkerStep(w)
    \/ MergerStep

\* The OS scheduler runs every thread: the Ticker's polling and the redraws
\* of the event loop keep no other thread from a step it can take, the event
\* loop finishes the handler it is in, and while some pipeline thread can
\* take a step, one of them does.
Fairness ==
    /\ WF_vars(MainRenderReturned \/ MainStopWait)
    /\ WF_vars(TickerStep)
    /\ WF_vars(PipelineStep)

FairSpec == InitFair /\ [][Next]_vars /\ Fairness

BusySpec == InitBusy /\ [][Next]_vars

NextRun == ProgramStep

RunSpec == InitRun /\ [][NextRun]_vars

\* -------------------------------------------------------------- properties
WorkerEnded(w) == worker[w].pc \in {"done", "panicked"}

MergerEnded == merger.pc \in {"done", "panicked"}

\* The Scheduler, the Ticker, every Worker, the Merger and the Coordinator
\* have returned (or ended by a panic).
AllTerminated ==
    /\ sched.pc = "done"
    /\ ticker.pc = "done"
    /\ \A w \in Workers : WorkerEnded(w)
    /\ MergerEnded
    /\ coord.pc = "done"

\* The external Stop has been placed on the Coordinator's input channel.
StopPlaced == hist.stop_sent > 0

\* C1: once the external Stop is on the Coordinator's input channel, whenever
\* in the run that happens and for every worker count, every pipeline thread
\* eventually terminates: none stays blocked on a receive or spins in a send.
C1_AllThreadsTerminate == StopPlaced ~> AllTerminated

\* A stopped run of two workers, who share the one Stop of the work
\* channel: both have returned, and so has every other thread.
C1_Witness ==
    /\ AllTerminated
    /\ StopPlaced
    /\ threads(config) = 2
    /\ \A w \in Workers : worker[w].pc = "done"
    /\ process_tile = <<>>
    /\ \E t \in Tiles : hist.merged[t] = 1

\* C2: after the external Stop the Coordinator places exactly one message on
\* the done-channel, and the caller's wait in stop_rendering returns.
C2_DoneDeliveredOnce ==
    /\ StopPlaced ~> (hist.done_sent = 1 /\ hist.done_received = 1)
    /\ [](hist.done_sent <= 1 /\ hist.done_received <= hist.done_sent)
    /\ [][hist'.done_received > hist.done_received => main'.pc = "exit"]_vars

\* The caller has returned from stop_rendering with the one done-signal.
C2_Witness ==
    /\ main.pc = "exit"
    /\ hist.done_sent = 1
    /\ hist.done_received = 1
    /\ stop_complete = <<>>

\* No thread of the pipeline can take a step that changes the state.
Quiescent == ~ENABLED <<PipelineStep>>_vars

\* C3: in a run that is not stopped early the Scheduler enqueues every tile
\* index on the work channel exactly once: none twice, none skipped.
C3_EveryTileEnqueuedOnce ==
    /\ \A t \in Tiles : hist.enqueued[t] <= 1
    /\ (sched.pc = "done" /\ ~StopPlaced) =>
          \A t \in Tiles : hist.enqueued[t] = 1

\* C4: in a run with no stop signal, once the pipeline has come to rest every
\* tile was received by exactly one worker, rendered and merged, and no
\* thread is left in a send.
C4_EveryTileMerged ==
    (Quiescent /\ ~StopPlaced) =>
        /\ \A t \in Tiles : hist.rendered[t] = 1 /\ hist.merged[t] = 1
        /\ sched.pc # "send"
        /\ \A w \in Workers : worker[w].pc # "send"

\* C5: when every tile has been merged in a run with no early stop, every
\* byte of the frame buffer has been written by exactly one Merge.
C5_FrameWrittenOnce ==
    (~StopPlaced /\ \A t \in Tiles : hist.merged[t] = 1) =>
        \A i \in DOMAIN frame : frame[i] = 1

\* C6: in every run no tile is rendered by more than one worker and no tile
\* is applied to the frame buffer more than once.
C6_NoTileTwice ==
    \A t \in Tiles :
        /\ hist.rendered[t] <= 1
        /\ hist.consumed[t] <= 1
        /\ hist.merged[t] <= 1

\* A stopped run of two workers in which each of two tiles was rendered and
\* merged.
C6_Witness ==
    /\ StopPlaced
    /\ threads(config) = 2
    /\ tiles(config) = 2
    /\ \A t \in Tiles : hist.rendered[t] = 1 /\ hist.merged[t] = 1

\* C7: every Merge message that is on the result channel when the Coordinator
\* enters Draining has been applied to the frame buffer when the Merger has
\* terminated.
C7_DrainedMergesApplied == MergerEnded => hist.drain_merges = {}

\* C8: a tile a worker holds when the stop arrives is merged unless the
\* worker's send found the result channel disconnected: no Merge message that
\* was enqueued on the result channel is left unconsumed behind a Stop.
C8_NoMergeLeftBehind == MergerEnded => TilesOn(copy_tile_ch) = {}

\* C9: a tile that is queued on the work channel when the Coordinator enters
\* Draining is never rendered by a worker.
C9_QueuedTilesDropped ==
    [][\A t \in hist.drain_queued : hist.rendered'[t] = hist.rendered[t]]_vars

\* C9 as amended: the tiles dropped by an early stop are those the Scheduler
\* never enqueued; only a tile that was enqueued is rendered, and only a
\* rendered tile is merged.
C9_OnlyEnqueuedTilesRendered ==
    \A t \in Tiles :
        /\ hist.rendered[t] <= hist.enqueued[t]
        /\ hist.consumed[t] <= hist.rendered[t]
        /\ hist.merged[t] <= hist.consumed[t]

\* A stopped run at rest: the Scheduler abandoned a tile, which was never
\* rendered, and a tile it had enqueued was rendered.
C9_Witness ==
    /\ StopPlaced
    /\ AllTerminated
    /\ \E t \in Tiles : hist.enqueued[t] = 0 /\ hist.rendered[t] = 0
    /\ \E t \in Tiles : hist.enqueued[t] = 1 /\ hist.rendered[t] = 1

\* What Reliable Send may do in one attempt on channel `ch`: go on trying
\* with nothing enqueued while the channel is full and a receiver lives;
\* return with the message enqueued once; or return with nothing enqueued
\* because no receiver lives.
ReliableSend(ch, ch_next, capacity, receivers, message, returns) ==
    IF ~receivers THEN returns /\ ch_next = ch
    ELSE IF Len(ch) >= capacity THEN ~returns /\ ch_next = ch
    ELSE returns /\ ch_next = Append(ch, message)

\* C10: every message_thread call returns only with the message enqueued
\* exactly once or with no live receiver and nothing enqueued, and never
\* while the channel is full with a live receiver.
C10_ReliableSend ==
    [][/\ SchedSend =>
             ReliableSend(process_tile, process_tile', ProcessTileCapacity,
                          ProcessTileReceivers, Process(sched.tile),
                          sched'.pc # "send")
       /\ \A w \in Workers : WorkerSend(w) =>
             ReliableSend(copy_tile_ch, copy_tile_ch', CopyTileCapacity,
                          CopyTileReceivers, Merge(worker[w].tile),
                          worker'[w].pc # "send")
       /\ CoordStopQueue =>
             ReliableSend(stop_queue, stop_queue', ControlCapacity,
                          StopQueueReceivers, Stop, coord'.pc # "stop_queue")
       /\ CoordStopRedraw =>
             ReliableSend(stop_redraw, stop_redraw', ControlCapacity,
                          StopRedrawReceivers, Stop, coord'.pc # "stop_redraw")
       /\ CoordStopProcess =>
             ReliableSend(process_tile, process_tile', ProcessTileCapacity,
                          ProcessTileReceivers, Stop,
                          coord'.pc # "stop_process")
       /\ CoordStopCopy =>
             ReliableSend(copy_tile_ch, copy_tile_ch', CopyTileCapacity,
                          CopyTileReceivers, Stop,
                          coord'.pc # "stop_copy" \/ coord'.i # coord.i)
       /\ CoordStopComplete =>
             ReliableSend(stop_complete, stop_complete', ControlCapacity,
                          StopCompleteReceivers, Stop,
                          coord'.pc # "stop_complete")
       /\ (MainCloseRequested \/ (MainRedrawRequested /\ lock # "free")) =>
             ReliableSend(stop_render, stop_render', ControlCapacity,
                          StopRenderReceivers, Stop, main'.pc = "stop_wait")
      ]_vars

\* The Scheduler had returned, dropping its receiver, before the Coordinator
\* first tried to send it Stop: the call returned and enqueued nothing.
C10_Witness ==
    /\ coord.pc \notin {"recv", "stop_queue"}
    /\ sched.pc = "done"
    /\ \A t \in Tiles : hist.enqueued[t] = 1
    /\ stop_queue = <<>>

\* C11: the frame buffer changes only in the Merger's copy with the lock
\* held by the Merger; the Merger holds the lock only for the copy of one
\* tile, not across a receive; and main never holds it during the channel
\* send and the blocking receive of stop_rendering.
C11_LockDiscipline ==
    [][/\ frame' # frame => (lock = "merger" /\ merger.pc = "copy")
       /\ lock' = "merger" => merger'.pc = "copy"
       /\ lock' = "main" => main'.pc # "stop_wait"
      ]_vars

\* ceil(a / b) in exact integer arithmetic.
CeilDiv(a, b) == (a + b - 1) \div b

\* C12: for every valid Config tiles_x = ceil(width / tile_size), tiles_y =
\* ceil(height / tile_size) and tiles() is their product.
C12_TilesIsCeil ==
    calc.op = "tiles" =>
        /\ calc.tiles_x = CeilDiv(config.width, config.tile_size)
        /\ calc.tiles_y = CeilDiv(config.height, config.tile_size)
        /\ calc.tiles = CeilDiv(config.width, config.tile_size)
                           * CeilDiv(config.height, config.tile_size)

\* C13: for every valid Config and every tile index below tiles(), both
\* get_tile_bounds return 0 <= x_min <= x_max < width and
\* 0 <= y_min <= y_max < height, and the same result when called again.
C13_BoundsInsideImage ==
    calc.op \in {"get_tile_bounds", "app_get_tile_bounds"} =>
        /\ 0 <= calc.bounds[1] /\ calc.bounds[1] <= calc.bounds[3]
        /\ calc.bounds[3] < config.width
        /\ 0 <= calc.bounds[2] /\ calc.bounds[2] <= calc.bounds[4]
        /\ calc.bounds[4] < config.height
        /\ calc.again = calc.bounds

\* The message_thread calls of wait_for_exit that have returned: one per
\* control channel, one on the work channel, one per worker on the result
\* channel.
DrainCallsReturned ==
    /\ hist.calls["stop_queue"] = 1
    /\ hist.calls["stop_redraw"] = 1
    /\ hist.calls["process_tile"] = 1
    /\ hist.calls["copy_tile"] = threads(config)

\* C14: on the one transition to Draining the Coordinator makes exactly one
\* reliable send of Stop to the Scheduler's and to the Ticker's control
\* channel and on the work channel, and exactly worker_count on the result
\* channel; the done-signal is sent only after all of them have returned;
\* the Coordinator takes one external Stop and repeats none of its sends.
C14_OneShotDrain ==
    [][/\ hist'.calls["stop_queue"] <= 1
       /\ hist'.calls["stop_redraw"] <= 1
       /\ hist'.calls["process_tile"] <= 1
       /\ hist'.calls["copy_tile"] <= threads(config)
       /\ hist'.calls["stop_complete"] <= 1
       /\ Len(stop_queue') > Len(stop_queue) =>
             hist'.calls["stop_queue"] = hist.calls["stop_queue"] + 1
       /\ Len(stop_redraw') > Len(stop_redraw) =>
             hist'.calls["stop_redraw"] = hist.calls["stop_redraw"] + 1
       /\ (Len(process_tile') > Len(process_tile)
              /\ process_tile'[Len(process_tile')] = Stop) =>
             hist'.calls["process_tile"] = hist.calls["process_tile"] + 1
       /\ (Len(copy_tile_ch') > Len(copy_tile_ch)
              /\ copy_tile_ch'[Len(copy_tile_ch')] = Stop) =>
             hist'.calls["copy_tile"] = hist.calls["copy_tile"] + 1
       /\ hist'.calls["stop_complete"] > hist.calls["stop_complete"] =>
             DrainCallsReturned
       /\ coord'.pc = "done" => (DrainCallsReturned' /\ coord.pc # "recv")
       /\ coord.pc # "recv" => coord'.pc # "recv"
      ]_vars

\* The Coordinator of a two-worker run has returned: its five kinds of send
\* have all returned, two of them on the result channel, and the Scheduler
\* took the Stop of its control channel.
C14_Witness ==
    /\ coord.pc = "done"
    /\ threads(config) = 2
    /\ DrainCallsReturned
    /\ hist.calls["stop_complete"] = 1
    /\ sched.pc = "done"
    /\ \E t \in Tiles : hist.enqueued[t] = 0

\* C15: every worker terminates by consuming a Stop of its own from the work
\* channel, which it does not send on.
C15_WorkerEndsByOwnStop ==
    [][\A w \in Workers :
          (worker[w].pc = "recv" /\ worker'[w].pc = "done") =>
              /\ process_tile # <<>>
              /\ Head(process_tile) = Stop
              /\ process_tile' = Tail(process_tile)
      ]_vars

\* The bytes of tile t's rectangle clipped to the image: the pixels (x, y)
\* with x in [tile_x * tile_size, min((tile_x + 1) * tile_size, width)) and
\* y likewise, tile_x and tile_y being t's column and row in a grid of
\* ceil(width / tile_size) columns.
RectBytes(c, t) ==
    LET cols == CeilDiv(c.width, c.tile_size)
        x0 == (t % cols) * c.tile_size
        y0 == (t \div cols) * c.tile_size
        x1 == IF x0 + c.tile_size < c.width THEN x0 + c.tile_size ELSE c.width
        y1 == IF y0 + c.tile_size < c.height THEN y0 + c.tile_size
              ELSE c.height
    IN {(y * c.width + x) * COLOR_CHANNELS + k :
           x \in x0..(x1 - 1), y \in y0..(y1 - 1),
           k \in 0..(COLOR_CHANNELS - 1)}

\* C16: the Merger's copy of a tile uses no slice index out of range, of
\* the frame buffer or of the tile's pixels, and changes no byte of the
\* frame buffer outside the tile's clipped rectangle.
C16_CopyInsideRectangle ==
    [][MergerCopy =>
          /\ ~CopyPanics(config, merger.tile)
          /\ \A i \in DOMAIN frame :
                 frame'[i] # frame[i] => i \in RectBytes(config, merger.tile)
      ]_vars

\* C17: the Scheduler goes to a send only through a check of its stop
\* channel that found it empty; a check that finds a Stop, or the channel
\* empty and disconnected, ends the Scheduler, which enqueues nothing more;
\* so at most one Process message is enqueued while the Coordinator's Stop
\* is on the Scheduler's control channel.
C17_SchedulerStops ==
    [][/\ hist'.late <= 1
       /\ (sched.pc # "send" /\ sched'.pc = "send") =>
             (SchedCheck /\ stop_queue = <<>> /\ StopQueueSenders)
       /\ (SchedCheck /\ (stop_queue # <<>> \/ ~StopQueueSenders)) =>
             sched'.pc = "done"
       /\ sched.pc = "done" =>
             (sched'.pc = "done" /\ hist'.enqueued = hist.enqueued)
      ]_vars

\* The Stop reached the control channel while the Scheduler was in a send:
\* that message was enqueued, the next check ended the Scheduler, and a
\* tile was abandoned.
C17_Witness ==
    /\ hist.late = 1
    /\ sched.pc = "done"
    /\ stop_queue = <<>>
    /\ \E t \in Tiles : hist.enqueued[t] = 0
    /\ \E t \in Tiles : hist.enqueued[t] = 1

\* A thread inside a Reliable Send on `ch`, which holds `capacity` messages.
BlockedOn(at_send, ch, capacity) == at_send /\ Len(ch) = capacity

\* C18: in every step the work channel holds at most 8 * threads messages,
\* the result channel at most 2 * threads, and each of the four control
\* channels at most 1; and a producer that is in a send on a full channel is
\* still in that send after the step, whichever thread took it.
C18_BoundedChannels ==
    [][/\ Len(process_tile') <= WorkQueueFactor * threads(config)
       /\ Len(copy_tile_ch') <= CopyQueueFactor * threads(config)
       /\ Len(stop_queue') <= ControlCapacity
       /\ Len(stop_redraw') <= ControlCapacity
       /\ Len(stop_render') <= ControlCapacity
       /\ Len(stop_complete') <= ControlCapacity
       /\ BlockedOn(sched.pc = "send", process_tile,
                    WorkQueueFactor * threads(config)) => sched' = sched
       /\ BlockedOn(coord.pc = "stop_process", process_tile,
                    WorkQueueFactor * threads(config)) => coord' = coord
       /\ BlockedOn(coord.pc = "stop_copy", copy_tile_ch,
                    CopyQueueFactor * threads(config)) => coord' = coord
       /\ \A w \in Workers :
             BlockedOn(worker[w].pc = "send", copy_tile_ch,
                       CopyQueueFactor * threads(config)) =>
                 worker'[w] = worker[w]
      ]_vars

\* C19: in every step taken while the Coordinator still waits for the
\* external stop, no send of the Scheduler or of a Worker and no stop check
\* of the Scheduler or the Ticker finds its channel disconnected, and no
\* Worker or Merger leaves its receive loop on an empty channel.
C19_NoDisconnectWhileRunning ==
    [][coord.pc = "recv" =>
          /\ SchedSend => ProcessTileReceivers
          /\ SchedCheck => (stop_queue # <<>> \/ StopQueueSenders)
          /\ (ticker.pc = "poll" /\ ticker'.pc = "done") =>
                 (stop_redraw # <<>> \/ StopRedrawSenders)
          /\ \A w \in Workers :
                /\ WorkerSend(w) => CopyTileReceivers
                /\ (worker[w].pc = "recv" /\ worker'[w].pc = "done") =>
                       process_tile # <<>>
          /\ (merger.pc = "recv" /\ merger'.pc = "done") =>
                 copy_tile_ch # <<>>
      ]_vars

\* C20: no worker ends by a panic in its latency step, and a worker that is
\* about to send the Merge of its tile has slept a duration d with
\* 1 <= d <= max_load_millis.
C20_LoadWithinRange ==
    \A w \in Workers :
        /\ worker[w].pc # "panicked"
        /\ worker[w].pc = "send" => worker[w].d \in 1..config.max_load_millis

\* The Ticker finds no stop signal: its control channel is empty and the
\* Coordinator still holds the sender.
NoStopSignal == stop_redraw = <<>> /\ StopRedrawSenders

\* C21: in every step, a poll of the Ticker that finds no stop signal invokes
\* the redraw-request hook and no other step does; it goes round after its
\* sleep whatever the Scheduler and the Merger have done; a poll that finds a
\* Stop or a disconnected channel ends the Ticker, which then stays ended.
C21_TickerRequestsRedraw ==
    [][/\ (TickerPoll /\ NoStopSignal) => ticker'.pc = "sleep"
       /\ (TickerPoll /\ ~NoStopSignal) => ticker'.pc = "done"
       /\ (ticker.pc # "sleep" /\ ticker'.pc = "sleep") =>
              (TickerPoll /\ NoStopSignal)
       /\ (ticker.pc = "sleep" /\ ticker'.pc # "sleep") => ticker'.pc = "poll"
       /\ ticker.pc = "done" => ticker'.pc = "done"
      ]_vars

C21_Witness ==
    /\ ticker.pc = "sleep"
    /\ sched.pc = "done"
    /\ \A t \in Tiles : hist.merged[t] = 1
    /\ merger.pc = "recv"
    /\ NoStopSignal

\* C22: in every step, a handler of RedrawRequested whose render call has
\* reported an error does not return to the event loop: it stays in the
\* handler until stop_rendering has sent the external Stop and waits for the
\* done-signal.
C22_RenderErrorStops ==
    [][main.pc = "render_err" => main'.pc \in {"render_err", "stop_wait"}]_vars

\* C23: in the prototype of app.rs, for every valid Config, every pixel of
\* the image lies in the rectangle of exactly one tile of 0..tiles(), and
\* copy_tile applied once per tile writes every byte of the frame exactly
\* once and takes no slice out of range, partial tiles included.
C23_AppTilesPartition ==
    calc.op = "app_copy_tiles" =>
        /\ calc.tiles = 1
        /\ \A ch \in 0..(COLOR_CHANNELS - 1) : calc.writes[ch] = 1
        /\ ~calc.panics

\* C24: whenever the caller has received the done-signal, the Coordinator
\* has made all its sends and has returned; nothing more follows from it:
\* the witness is a state in which the done-signal has been received while a
\* Worker still renders a tile, the work channel still holds messages and
\* the Merger has not ended.
C24_DoneAfterSendsOnly ==
    hist.done_received = 1 =>
        /\ coord.pc = "done"
        /\ DrainCallsReturned
        /\ hist.calls["stop_complete"] = 1

C24_Witness ==
    /\ hist.done_received = 1
    /\ main.pc = "exit"
    /\ \E w \in Workers : worker[w].pc \in {"load", "send"}
    /\ process_tile # <<>>
    /\ MergerLive

\* C25: at most one stop request completes per run.  A stop_rendering call
\* made after the caller has received the done-signal finds the stop channel
\* disconnected, enqueues nothing and goes on to its receive, and that
\* receive never returns: no second done-signal is sent or received and the
\* caller stays in the wait for ever.
C25_SecondStopBlocks ==
    [][/\ hist'.done_received <= 1
       /\ hist'.done_sent <= 1
       /\ (main.pc = "exit" /\ main'.pc # "exit") =>
             /\ ~StopRenderReceivers
             /\ stop_render' = stop_render
             /\ hist'.stop_sent = hist.stop_sent
             /\ main'.pc = "stop_wait"
       /\ (main.pc = "stop_wait" /\ hist.done_received = 1) =>
             (main' = main /\ stop_complete' = <<>>)
      ]_vars

\* The caller in its second wait: the Coordinator has returned, the one
\* done-signal has been consumed, nothing is on the way.
C25_Witness ==
    /\ main.pc = "stop_wait"
    /\ hist.done_received = 1
    /\ hist.stop_sent = 1
    /\ coord.pc = "done"
    /\ stop_complete = <<>>
    /\ stop_render = <<>>
    /\ StopCompleteSenders

====
